---- MODULE Spec2Model ----
(***************************************************************************)
(* State-machine model of the cache layer and the invite tracker of the    *)
(* bot:                                                                    *)
(*   - src/app/database/redis.py          RedisManager with the in-memory  *)
(*                                        fallback (specifications Spec,   *)
(*                                        SpecClose, SpecCooldown, SpecRef,*)
(*                                        SpecReadBack, SpecDirect)        *)
(*   - src/app/database/redis_manager.py  RedisManager with the connection *)
(*                                        lock (specification SpecManager) *)
(*   - src/app/cogs/welcome.py            Welcome, the invite cache        *)
(*                                        (specifications SpecWelcome,     *)
(*                                        SpecWelcomeRace,                 *)
(*                                        SpecWelcomeGuilds)               *)
(* Coroutines are tasks; a task gives up control only at an await that     *)
(* really suspends (a call to the Redis client or to the chat gateway).    *)
(***************************************************************************)
EXTENDS Integers, Sequences, FiniteSets, TLC

\* ----------------------------------------------------------------- bounds
MaxTime == 4        \* the clock runs from StartTime to MaxTime
MaxCount == 2       \* largest counter value increment may produce

\* ------------------------------------------------------- program constants
Prefix == "veka:"   \* config.py: redis_prefix

\* ------------------------------------------------------------ input domains
Tasks == {"t1", "t2"}
Connectors == {"t1"}    \* the tasks that call connect() where commands run
DataKeys == {"a"}
Users == {7}
Commands == {"ping"}
Values == {"x", "1"}
StartTime == 2
\* An optional int argument (expire: Optional[int]) is {} for None, {n} for n.
ExpireArgs == {{}, {0}, {1}}
Windows == {1, 2}
RateKeys == {"u"}
Limits == {1}
Patterns == {"*", "a"}

\* Results handed back to the caller, as text.
NoneRes == "None"
TrueRes == "True"
FalseRes == "False"
Raised == "raised"

VARIABLES
    \* --- redis.py RedisManager -------------------------------------------
    redis,          \* self.redis: "none", else the client made by that task
    available,      \* self._available
    memory_store,   \* self._memory_store: prefixed key -> entry
    \* --- environment of the gateway --------------------------------------
    server,         \* the Redis server's data: prefixed key -> entry
    urlValid,       \* whether redis.from_url accepts the configured URI
    opened,         \* clients (by the task that made them) not yet closed
    probed,         \* per client, how its latest ping ended ("sent": not yet)
    now,            \* time.time()
    \* --- tasks ------------------------------------------------------------
    pc,             \* where each task is suspended
    loc,            \* locals of a suspended check_cooldown
    \* --- observations -----------------------------------------------------
    last,           \* the call that returned most recently
    ccres,          \* per task, the result of its latest check_cooldown
    ccover,         \* per task, the tasks whose check_cooldown overlapped it
    ref_store,      \* the fallback map of a run that never had a backend
    refRes,         \* what that run returned for the last call
    refTrack,       \* TRUE while no remote data call has succeeded
    \* --- redis_manager.py RedisManager -----------------------------------
    _redis,         \* self._redis: "none", else the client made by that task
    _lock,          \* self._lock: "free", else the task that holds it
    mpc,            \* where each caller of the manager is suspended
    mcall,          \* the method each suspended caller called
    clients,        \* clients (by the task that made them) not yet closed
    mlast,          \* the step of connect/close taken most recently
    \* --- welcome.py Welcome ----------------------------------------------
    invites,        \* self.invites: guild -> snapshot (code -> uses)
    guild_invites,  \* the platform's invite list of each guild
    issued,         \* invite codes the platform has handed out so far
    events,         \* invite events dispatched and not yet handled
    todo,           \* guilds the loop of cog_load has not reached yet
    wpc,            \* where each handler is suspended
    wloc,           \* locals of a suspended handler
    wlast           \* the handler that returned most recently

gvars == <<redis, available, memory_store, server, urlValid, opened,
           probed, now, pc, loc, last, ccres, ccover, ref_store, refRes,
           refTrack>>
mvars == <<_redis, _lock, mpc, mcall, clients, mlast>>
wvars == <<invites, guild_invites, issued, events, todo, wpc, wloc, wlast>>
vars == <<gvars, mvars, wvars>>

\* ------------------------------------------------------------------- keys
\* RedisManager._key: f"{self._prefix}{key}"
_key(key) == Prefix \o key

\* check_cooldown: f"cooldown:{user_id}:{command}"
CooldownKey(user_id, command) ==
    "cooldown:" \o ToString(user_id) \o ":" \o command

\* set_rate_limit: f"ratelimit:{key}"
RateKey(key) == "ratelimit:" \o key

StoreKeys ==
    {_key(k) : k \in DataKeys}
        \cup {_key(CooldownKey(u, c)) : u \in Users, c \in Commands}
        \cup {_key(RateKey(k)) : k \in RateKeys}

\* ---------------------------------------------------------------- entries
\* A dict entry {'value': ..., 'expire': ...}; expire is {} for None.
Absent == [has |-> FALSE, value |-> "", expire |-> {}]
Entry(v, ex) == [has |-> TRUE, value |-> v, expire |-> ex]
EmptyStore == [K \in StoreKeys |-> Absent]

\* Python truthiness of data['expire'] (None and 0 are falsy).
Truthy(ex) == \E e \in ex : e # 0
\* time.time() > data['expire']
After(t, ex) == \E e \in ex : t > e

\* int(s) is defined on the decimal numerals only; str(n) is ToString(n).
IsInt(s) == \E n \in 0..(MaxCount + 1) : ToString(n) = s
ParseInt(s) == CHOOSE n \in 0..(MaxCount + 1) : ToString(n) = s

\* ------------------------------------------------- the in-memory fallback
\* Each operator is the else-branch of one method: the map m, the prefixed
\* key K and the clock t go in, [st |-> the map after, res |-> the result,
\* out |-> "ok" or "raised"] comes out.

\* set: self._memory_store[key] = {'value': value,
\*          'expire': time.time() + expire if expire else None}
FbSet(m, K, v, ex, t) ==
    [st |-> [m EXCEPT ![K] =
                Entry(v, IF Truthy(ex) THEN {t + e : e \in ex} ELSE {})],
     res |-> NoneRes, out |-> "ok"]

\* get as it would be without the expiry test (a faulty variant, used to
\* show that the expiry property depends on the test)
FbGet_IgnoresExpiry(m, K, t) ==
    [st |-> m, res |-> IF m[K].has THEN m[K].value ELSE NoneRes, out |-> "ok"]

\* get: an expired entry is deleted and None is returned
FbGet(m, K, t) ==
    LET data == m[K] IN
    IF data.has
    THEN IF Truthy(data.expire) /\ After(t, data.expire)
         THEN [st |-> [m EXCEPT ![K] = Absent], res |-> NoneRes, out |-> "ok"]
         ELSE [st |-> m, res |-> data.value, out |-> "ok"]
    ELSE [st |-> m, res |-> NoneRes, out |-> "ok"]

\* delete: self._memory_store.pop(key, None)
FbDelete(m, K) ==
    [st |-> [m EXCEPT ![K] = Absent], res |-> NoneRes, out |-> "ok"]

\* exists: an expired entry is deleted and False is returned, else
\* key in self._memory_store
FbExists(m, K, t) ==
    LET data == m[K] IN
    IF data.has /\ Truthy(data.expire) /\ After(t, data.expire)
    THEN [st |-> [m EXCEPT ![K] = Absent], res |-> FalseRes, out |-> "ok"]
    ELSE [st |-> m, res |-> IF m[K].has THEN TrueRes ELSE FalseRes,
          out |-> "ok"]

\* increment: data = get(key, {'value': '0'}); int(data['value']) + 1 is
\* stored as a string with data.get('expire'); int() raises ValueError on a
\* value that is no numeral. The expiry is not looked at.
FbIncrement(m, K) ==
    LET data == IF m[K].has THEN m[K] ELSE Entry("0", {}) IN
    IF IsInt(data.value)
    THEN LET new_value == ParseInt(data.value) + 1 IN
         [st |-> [m EXCEPT ![K] = Entry(ToString(new_value), data.expire)],
          res |-> ToString(new_value), out |-> "ok"]
    ELSE [st |-> m, res |-> Raised, out |-> "raised"]

FallbackCall(op, m, K, v, ex, t) ==
    CASE op = "set" -> FbSet(m, K, v, ex, t)
      [] op = "get" -> FbGet(m, K, t)
      [] op = "delete" -> FbDelete(m, K)
      [] op = "exists" -> FbExists(m, K, t)
      [] op = "increment" -> FbIncrement(m, K)

\* -------------------------------------------------------- the Redis server
\* What the server does with the command each method sends through
\* self.redis. A key whose expiry has been reached is gone for the server.
RmLive(e, t) == e.has /\ \A x \in e.expire : t < x

\* SET key value [EX seconds]: the server rejects EX <= 0
RmSet(s, K, v, ex, t) ==
    IF \E e \in ex : e <= 0
    THEN [st |-> s, res |-> Raised, out |-> "raised"]
    ELSE [st |-> [s EXCEPT ![K] = Entry(v, {t + e : e \in ex})],
          res |-> NoneRes, out |-> "ok"]

\* GET key
RmGet(s, K, t) ==
    [st |-> s, res |-> IF RmLive(s[K], t) THEN s[K].value ELSE NoneRes,
     out |-> "ok"]

\* DEL key
RmDelete(s, K) ==
    [st |-> [s EXCEPT ![K] = Absent], res |-> NoneRes, out |-> "ok"]

\* EXISTS key, compared with 0 by the caller
RmExists(s, K, t) ==
    [st |-> s, res |-> IF RmLive(s[K], t) THEN TrueRes ELSE FalseRes,
     out |-> "ok"]

\* INCR key: a missing key counts as 0, the TTL is kept, a value that is no
\* integer is an error
RmIncr(s, K, t) ==
    LET data == IF RmLive(s[K], t) THEN s[K] ELSE Entry("0", {}) IN
    IF IsInt(data.value)
    THEN LET n == ParseInt(data.value) + 1 IN
         [st |-> [s EXCEPT ![K] = Entry(ToString(n), data.expire)],
          res |-> ToString(n), out |-> "ok"]
    ELSE [st |-> s, res |-> Raised, out |-> "raised"]

RemoteCall(op, s, K, v, ex, t) ==
    CASE op = "set" -> RmSet(s, K, v, ex, t)
      [] op = "get" -> RmGet(s, K, t)
      [] op = "delete" -> RmDelete(s, K)
      [] op = "exists" -> RmExists(s, K, t)
      [] op = "increment" -> RmIncr(s, K, t)

\* ------------------------------------------------------------- dispatching
\* The body shared by set/get/delete/exists/increment:
\*     if self._available: <await self.redis.op(...)> else: <fallback>
\* answers says whether the server answers this call; when it does not the
\* client raises, and nothing around the call catches it.
Dispatch(op, K, v, ex, answers) ==
    IF available
    THEN IF answers
         THEN LET r == RemoteCall(op, server, K, v, ex, now) IN
              [via |-> "remote", out |-> r.out, res |-> r.res,
               server |-> r.st, memory |-> memory_store,
               pre |-> server[K]]
         ELSE [via |-> "remote", out |-> "raised", res |-> Raised,
               server |-> server, memory |-> memory_store,
               pre |-> server[K]]
    ELSE LET r == FallbackCall(op, memory_store, K, v, ex, now) IN
         [via |-> "fallback", out |-> r.out, res |-> r.res,
          server |-> server, memory |-> r.st,
          pre |-> memory_store[K]]

\* ------------------------------------------------------------ observations
NoLoc == [key |-> "", window |-> 0, mark |-> FALSE, found |-> FalseRes,
          pre |-> Absent, count |-> 0, limit |-> 0, flag |-> FALSE,
          keys |-> {}]
\* last describes the call that returned in the step just taken, if any.
NoCall == [task |-> "", op |-> "", key |-> "", via |-> "none", out |-> "ok",
           res |-> NoneRes, pre |-> Absent, arg |-> {}, mark |-> FALSE,
           flag |-> FALSE]

\* The record of a call of task p that returns (or raises) in this step;
\* flag is self._available as the call found it (for check_cooldown, as
\* it is at the return).
Ret(p, op, K, d, arg, mark) ==
    [task |-> p, op |-> op, key |-> K, via |-> d.via, out |-> d.out,
     res |-> d.res,
     pre |-> IF op \in {"set", "delete"} THEN Absent ELSE d.pre,
     arg |-> arg, mark |-> mark, flag |-> available]

\* A connect() or close() of task p returns None in this step.
Returns(p, op) == [NoCall EXCEPT !.task = p, !.op = op]

\* The same call in a run that only ever had the fallback map. The
\* comparison stops at the first remote data call that succeeds.
RefStep(tracked, r) ==
    IF tracked
    THEN /\ refTrack' = TRUE
         /\ ref_store' = r.st
         /\ refRes' = r.res
    ELSE /\ refTrack' = FALSE
         /\ ref_store' = EmptyStore
         /\ refRes' = NoneRes

\* ------------------------------------------------------------------- Init
\* RedisManager.__init__; compared says whether the run is followed by the
\* run on the fallback map alone, urls what from_url may make of the URI.
InitGateway(compared, urls) ==
    /\ redis = "none"
    /\ available = FALSE
    /\ memory_store = EmptyStore
    /\ server = EmptyStore
    /\ urlValid \in urls
    /\ opened = {}
    /\ probed = [p \in Tasks |-> "none"]
    /\ now = StartTime
    /\ pc = [p \in Tasks |-> "idle"]
    /\ loc = [p \in Tasks |-> NoLoc]
    /\ last = NoCall
    /\ ccres = [p \in Tasks |-> "-"]
    /\ ccover = [p \in Tasks |-> {}]
    /\ ref_store = EmptyStore
    /\ refRes = NoneRes
    /\ refTrack = compared

\* ------------------------------------------------------------ environment
\* A second passes.
Tick ==
    /\ now < MaxTime
    /\ now' = now + 1
    /\ last' = NoCall
    /\ refRes' = NoneRes
    /\ UNCHANGED <<redis, available, memory_store, server, urlValid, opened,
                   pc, loc, ccres, ccover, ref_store, refTrack>>
    /\ UNCHANGED probed
    /\ UNCHANGED <<mvars, wvars>>

\* ---------------------------------------------------------------- connect
\* connect, up to the await: self.redis = redis.from_url(...), then the
\* ping is sent. from_url raising is caught: self._available = False.
ConnectStart(p) ==
    /\ pc[p] = "idle"
    /\ IF urlValid
       THEN /\ redis' = p
            /\ opened' = opened \cup {p}
            /\ probed' = [probed EXCEPT ![p] = "sent"]
            /\ pc' = [pc EXCEPT ![p] = "ping"]
            /\ last' = NoCall
            /\ UNCHANGED available
       ELSE /\ available' = FALSE
            /\ last' = Returns(p, "connect")
            /\ UNCHANGED <<redis, opened, probed, pc>>
    /\ refRes' = NoneRes
    /\ UNCHANGED <<memory_store, server, urlValid, now, loc, ccres, ccover,
                   ref_store, refTrack>>
    /\ UNCHANGED <<mvars, wvars>>

\* connect, after await self.redis.ping(): self._available = True, or the
\* except branch: self._available = False. Either way connect returns.
ConnectPing(p, answers) ==
    /\ pc[p] = "ping"
    /\ available' = answers
    /\ probed' = [probed EXCEPT ![p] = IF answers THEN "ok" ELSE "failed"]
    /\ pc' = [pc EXCEPT ![p] = "idle"]
    /\ last' = Returns(p, "connect")
    /\ refRes' = NoneRes
    /\ UNCHANGED <<redis, memory_store, server, urlValid, opened, now, loc,
                   ccres, ccover, ref_store, refTrack>>
    /\ UNCHANGED <<mvars, wvars>>

\* ------------------------------------------------------------------ close
\* close, up to the await: if self.redis and self._available the client is
\* closed; otherwise the method goes straight to self._memory_store.clear().
CloseStart(p) ==
    /\ pc[p] = "idle"
    /\ IF redis # "none" /\ available
       THEN /\ opened' = opened \ {redis}
            /\ pc' = [pc EXCEPT ![p] = "closing"]
            /\ last' = NoCall
            /\ UNCHANGED <<memory_store, ref_store>>
       ELSE /\ memory_store' = EmptyStore
            /\ ref_store' = EmptyStore
            /\ last' = Returns(p, "close")
            /\ UNCHANGED <<opened, pc>>
    /\ refRes' = NoneRes
    /\ UNCHANGED <<redis, available, server, urlValid, now, loc, ccres, ccover,
                   refTrack>>
    /\ UNCHANGED probed
    /\ UNCHANGED <<mvars, wvars>>

\* close, after await self.redis.close(): self._memory_store.clear()
CloseFinish(p) ==
    /\ pc[p] = "closing"
    /\ memory_store' = EmptyStore
    /\ ref_store' = EmptyStore
    /\ pc' = [pc EXCEPT ![p] = "idle"]
    /\ last' = Returns(p, "close")
    /\ refRes' = NoneRes
    /\ UNCHANGED <<redis, available, server, urlValid, opened, now,
                   loc, ccres, ccover, refTrack>>
    /\ UNCHANGED probed
    /\ UNCHANGED <<mvars, wvars>>

\* -------------------------------------------------------- data operations
\* One call of set/get/delete/exists/increment by a task that is not
\* suspended. The remote command takes effect when it is sent; nothing else
\* of the method runs after the await but the return.
DataOp(op, key, v, ex, answers) ==
    /\ \E p \in Tasks : pc[p] = "idle"
    /\ LET K == _key(key)
           d == Dispatch(op, K, v, ex, answers)
       IN /\ server' = d.server
          /\ memory_store' = d.memory
          /\ last' = Ret("", op, K, d, ex, FALSE)
          /\ RefStep(refTrack /\ ~(d.via = "remote" /\ d.out = "ok"),
                     FallbackCall(op, ref_store, K, v, ex, now))
    /\ UNCHANGED <<redis, available, urlValid, opened, now, pc, loc, ccres,
                   ccover>>
    /\ UNCHANGED probed
    /\ UNCHANGED <<mvars, wvars>>

\* async def set(self, key, value, expire=None)
Set(key, value, expire, answers) == DataOp("set", key, value, expire, answers)

\* async def get(self, key)
Get(key, answers) == DataOp("get", key, "", {}, answers)

\* async def delete(self, key)
Delete(key, answers) == DataOp("delete", key, "", {}, answers)

\* async def exists(self, key)
Exists(key, answers) == DataOp("exists", key, "", {}, answers)

\* The counter stays within the model's numerals in every map.
CounterRoom(K) ==
    \A m \in {memory_store, server, ref_store} :
        (m[K].has /\ IsInt(m[K].value)) => ParseInt(m[K].value) < MaxCount

\* async def increment(self, key)
Increment(key, answers) ==
    /\ CounterRoom(_key(key))
    /\ DataOp("increment", key, "", {}, answers)

\* ---------------------------------------------------------- check_cooldown
\* A mark that some store of the gateway holds and that has not expired.
MarkLive(K) ==
    \/ /\ memory_store[K].has
       /\ ~(/\ Truthy(memory_store[K].expire)
            /\ After(now, memory_store[K].expire))
    \/ RmLive(server[K], now)

\* check_cooldown on the fallback map alone: exists, then set(key, "1",
\* expire=cooldown) when the key is not there.
RefCooldown(m, K, w, t) ==
    LET e == FbExists(m, K, t) IN
    IF e.res = TrueRes
    THEN [st |-> e.st, res |-> FalseRes, out |-> "ok"]
    ELSE [st |-> FbSet(e.st, K, "1", {w}, t).st, res |-> TrueRes, out |-> "ok"]

\* The tasks suspended inside check_cooldown.
InCooldown == {q \in Tasks : pc[q] \in {"cc_exists", "cc_set"}}

\* check_cooldown returns (or raises) in this step.
CooldownReturn(p, K, w, res, d, mark) ==
    /\ pc' = [pc EXCEPT ![p] = "idle"]
    /\ loc' = [loc EXCEPT ![p] = NoLoc]
    /\ ccres' = [ccres EXCEPT ![p] = res]
    /\ last' = [Ret(p, "check_cooldown", K, d, {w}, mark) EXCEPT !.res = res]

\* check_cooldown from the call to the first await that suspends:
\*     if await self.exists(key): return False
\*     await self.set(key, "1", expire=cooldown); return True
\* On the fallback map neither await suspends and the method runs to its
\* return; on the backend the task suspends in redis.exists.
CheckCooldownStart(p, user_id, command, cooldown, answers) ==
    /\ pc[p] = "idle"
    /\ LET K == _key(CooldownKey(user_id, command))
           e == Dispatch("exists", K, "", {}, answers)
           mark == MarkLive(K)
           s == FbSet(e.memory, K, "1", {cooldown}, now)
           suspends == e.via = "remote" /\ e.out = "ok"
           sets == e.via = "fallback" /\ e.res # TrueRes
       IN /\ ccover' = [q \in Tasks |->
                           IF q = p THEN InCooldown
                           ELSE IF q \in InCooldown THEN ccover[q] \cup {p}
                           ELSE ccover[q] \ {p}]
          /\ memory_store' = IF sets THEN s.st ELSE e.memory
          /\ UNCHANGED server
          /\ RefStep(refTrack /\ ~suspends,
                     RefCooldown(ref_store, K, cooldown, now))
          /\ IF suspends
             THEN /\ pc' = [pc EXCEPT ![p] = "cc_exists"]
                  /\ loc' = [loc EXCEPT ![p] =
                                [NoLoc EXCEPT
                                   !.key = K, !.window = cooldown,
                                   !.mark = mark, !.found = e.res,
                                   !.pre = e.pre]]
                  /\ ccres' = [ccres EXCEPT ![p] = "-"]
                  /\ last' = NoCall
             ELSE CooldownReturn(p, K, cooldown,
                                 IF e.out = "raised" THEN Raised
                                 ELSE IF sets THEN TrueRes ELSE FalseRes,
                                 e, mark)
    /\ UNCHANGED <<redis, available, urlValid, opened, now>>
    /\ UNCHANGED probed
    /\ UNCHANGED <<mvars, wvars>>

\* check_cooldown resumed after await self.redis.exists(key): return False
\* when the key was there, else self.set runs: on the fallback map it
\* returns at once, on the backend the task suspends in redis.set.
CheckCooldownAfterExists(p, answers) ==
    /\ pc[p] = "cc_exists"
    /\ LET K == loc[p].key
           w == loc[p].window
           d == Dispatch("set", K, "1", {w}, answers)
           found == loc[p].found = TrueRes
           suspends == ~found /\ d.via = "remote" /\ d.out = "ok"
       IN /\ server' = IF found THEN server ELSE d.server
          /\ memory_store' = IF found THEN memory_store ELSE d.memory
          /\ IF suspends
             THEN /\ pc' = [pc EXCEPT ![p] = "cc_set"]
                  /\ last' = NoCall
                  /\ UNCHANGED <<loc, ccres>>
             ELSE CooldownReturn(p, K, w,
                                 IF found THEN FalseRes
                                 ELSE IF d.out = "ok" THEN TrueRes ELSE Raised,
                                 [d EXCEPT
                                    !.via = "remote", !.pre = loc[p].pre,
                                    !.out = IF found THEN "ok" ELSE d.out],
                                 loc[p].mark)
    /\ refRes' = NoneRes
    /\ UNCHANGED <<redis, available, urlValid, opened, now, ccover,
                   ref_store, refTrack>>
    /\ UNCHANGED probed
    /\ UNCHANGED <<mvars, wvars>>

\* check_cooldown resumed after await self.redis.set(...): return True
CheckCooldownAfterSet(p) ==
    /\ pc[p] = "cc_set"
    /\ LET K == loc[p].key
           d == [via |-> "remote", out |-> "ok", res |-> TrueRes,
                 server |-> server, memory |-> memory_store,
                 pre |-> loc[p].pre]
       IN CooldownReturn(p, K, loc[p].window, TrueRes, d, loc[p].mark)
    /\ refRes' = NoneRes
    /\ UNCHANGED <<redis, available, memory_store, server, urlValid, opened,
                   now, ccover, ref_store, refTrack>>
    /\ UNCHANGED probed
    /\ UNCHANGED <<mvars, wvars>>

\* ---------------------------------------------------------- set_rate_limit
\* EXPIRE key seconds: a key that is there gets the expiry
RmExpire(s, K, w, t) ==
    [st |-> IF RmLive(s[K], t) THEN [s EXCEPT ![K].expire = {t + w}] ELSE s,
     res |-> NoneRes, out |-> "ok"]

\* A call of task p that went to self.redis without asking self._available
\* returns (or raises) in this step; via is "none" when self.redis is None
\* and the attribute access raised.
DirectReturn(p, op, K, via, out, res, arg, flag) ==
    /\ pc' = [pc EXCEPT ![p] = "idle"]
    /\ loc' = [loc EXCEPT ![p] = NoLoc]
    /\ last' = [NoCall EXCEPT
                  !.task = p, !.op = op, !.key = K, !.via = via, !.out = out,
                  !.res = res, !.arg = arg, !.flag = flag]

\* set_rate_limit from the call to the first suspension:
\*     count = await self.redis.incr(key)
\* self._available is not read; with self.redis None the call raises
\* AttributeError.
SetRateLimitStart(p, key, limit, window, answers) ==
    /\ pc[p] = "idle"
    /\ CounterRoom(_key(RateKey(key)))
    /\ LET K == _key(RateKey(key))
           r == RmIncr(server, K, now)
           sent == redis # "none" /\ answers
       IN /\ server' = IF sent THEN r.st ELSE server
          /\ IF sent /\ r.out = "ok"
             THEN /\ pc' = [pc EXCEPT ![p] = "rl_incr"]
                  /\ loc' = [loc EXCEPT ![p] =
                                [NoLoc EXCEPT
                                   !.key = K, !.window = window,
                                   !.limit = limit,
                                   !.count = ParseInt(r.res),
                                   !.flag = available]]
                  /\ last' = NoCall
             ELSE DirectReturn(p, "set_rate_limit", K,
                               IF redis = "none" THEN "none" ELSE "remote",
                               "raised", Raised, {window}, available)
    /\ refRes' = NoneRes
    /\ UNCHANGED <<redis, available, memory_store, urlValid, opened, probed,
                   now, ccres, ccover, ref_store, refTrack>>
    /\ UNCHANGED <<mvars, wvars>>

\* set_rate_limit resumed after the incr:
\*     if count == 1: await self.redis.expire(key, window)
\*     return count <= limit
SetRateLimitAfterIncr(p, answers) ==
    /\ pc[p] = "rl_incr"
    /\ LET K == loc[p].key
           first == loc[p].count = 1
           sent == redis # "none" /\ answers
       IN /\ server' = IF first /\ sent
                       THEN RmExpire(server, K, loc[p].window, now).st
                       ELSE server
          /\ IF first /\ sent
             THEN /\ pc' = [pc EXCEPT ![p] = "rl_expire"]
                  /\ last' = NoCall
                  /\ UNCHANGED loc
             ELSE DirectReturn(p, "set_rate_limit", K, "remote",
                               IF first THEN "raised" ELSE "ok",
                               IF first THEN Raised
                               ELSE IF loc[p].count <= loc[p].limit
                                    THEN TrueRes ELSE FalseRes,
                               {loc[p].window}, loc[p].flag)
    /\ refRes' = NoneRes
    /\ UNCHANGED <<redis, available, memory_store, urlValid, opened, probed,
                   now, ccres, ccover, ref_store, refTrack>>
    /\ UNCHANGED <<mvars, wvars>>

\* set_rate_limit resumed after the expire: return count <= limit
SetRateLimitAfterExpire(p) ==
    /\ pc[p] = "rl_expire"
    /\ DirectReturn(p, "set_rate_limit", loc[p].key, "remote", "ok",
                    IF loc[p].count <= loc[p].limit THEN TrueRes ELSE FalseRes,
                    {loc[p].window}, loc[p].flag)
    /\ refRes' = NoneRes
    /\ UNCHANGED <<redis, available, memory_store, server, urlValid, opened,
                   probed, now, ccres, ccover, ref_store, refTrack>>
    /\ UNCHANGED <<mvars, wvars>>

\* ---------------------------------------------------- cache_delete_pattern
\* KEYS pattern, for the patterns used here: "*" after the prefix matches
\* every key of the prefix, a pattern without wildcard matches itself.
Matches(K, pattern) ==
    \/ pattern = _key("*")
    \/ pattern = K

\* cache_delete_pattern from the call to the first suspension after which
\* something is left to do: keys = await self.redis.keys(pattern); with no
\* key found the method returns. self._available is not read.
CacheDeletePatternStart(p, pattern, answers) ==
    /\ pc[p] = "idle"
    /\ LET P == _key(pattern)
           keys == {K \in StoreKeys : RmLive(server[K], now) /\ Matches(K, P)}
           sent == redis # "none" /\ answers
       IN IF sent /\ keys # {}
          THEN /\ pc' = [pc EXCEPT ![p] = "dp_keys"]
               /\ loc' = [loc EXCEPT ![p] =
                             [NoLoc EXCEPT
                                !.key = P, !.keys = keys,
                                !.flag = available]]
               /\ last' = NoCall
          ELSE DirectReturn(p, "cache_delete_pattern", P,
                            IF redis = "none" THEN "none" ELSE "remote",
                            IF sent THEN "ok" ELSE "raised",
                            IF sent THEN NoneRes ELSE Raised, {}, available)
    /\ refRes' = NoneRes
    /\ UNCHANGED <<redis, available, memory_store, server, urlValid, opened,
                   probed, now, ccres, ccover, ref_store, refTrack>>
    /\ UNCHANGED <<mvars, wvars>>

\* cache_delete_pattern resumed after the keys:
\*     if keys: await self.redis.delete(*keys)
CacheDeletePatternDelete(p, answers) ==
    /\ pc[p] = "dp_keys"
    /\ LET sent == redis # "none" /\ answers
       IN /\ server' = IF sent
                       THEN [K \in StoreKeys |->
                               IF K \in loc[p].keys THEN Absent ELSE server[K]]
                       ELSE server
          /\ DirectReturn(p, "cache_delete_pattern", loc[p].key, "remote",
                          IF sent THEN "ok" ELSE "raised",
                          IF sent THEN NoneRes ELSE Raised, {}, loc[p].flag)
    /\ refRes' = NoneRes
    /\ UNCHANGED <<redis, available, memory_store, urlValid, opened, probed,
                   now, ccres, ccover, ref_store, refTrack>>
    /\ UNCHANGED <<mvars, wvars>>

\* ================================== redis_manager.py: RedisManager
Callers == {"c1", "c2", "c3"}

\* What a step of connect()/close() did: op "connect"/"close" is the return
\* of the call (out "raised" when it ends in an exception), op "from_url"
\* is the creation of a client; held says whether self._redis already held
\* a client at that moment.
NoStep == [task |-> "", op |-> "", out |-> "ok", held |-> FALSE]
Step(p, op, out, held) == [task |-> p, op |-> op, out |-> out, held |-> held]

\* RedisManager.__init__
InitManager ==
    /\ _redis = "none"
    /\ _lock = "free"
    /\ mpc = [p \in Callers |-> "idle"]
    /\ mcall = [p \in Callers |-> ""]
    /\ clients = {}
    /\ mlast = NoStep

\* @property is_connected: self._redis is not None
is_connected == _redis # "none"

\* connect() past its first test, entered by connect itself or by a data
\* operation through _ensure_connected: async with self._lock, which is
\* taken at once when free, else the caller waits for it.
EnterConnect(p, method) ==
    /\ mlast' = NoStep
    /\ mcall' = [mcall EXCEPT ![p] = method]
    /\ IF _lock = "free"
       THEN /\ _lock' = p
            /\ mpc' = [mpc EXCEPT ![p] = "from_url"]
       ELSE /\ mpc' = [mpc EXCEPT ![p] = "lock"]
            /\ UNCHANGED _lock

\* connect, from the call to the first suspension: return when
\* is_connected; else async with self._lock, which is taken at once when
\* free, and await redis.from_url(...).
ManagerConnect(p) ==
    /\ mpc[p] = "idle"
    /\ IF is_connected
       THEN /\ mlast' = Step(p, "connect", "ok", TRUE)
            /\ UNCHANGED <<_lock, mpc, mcall>>
       ELSE EnterConnect(p, "connect")
    /\ UNCHANGED <<_redis, clients>>
    /\ UNCHANGED <<gvars, wvars>>

\* connect, a waiter is handed the lock: nothing is looked at again, the
\* body starts with await redis.from_url(...).
ManagerLockAcquired(p) ==
    /\ mpc[p] = "lock"
    /\ _lock = "free"
    /\ _lock' = p
    /\ mpc' = [mpc EXCEPT ![p] = "from_url"]
    /\ mlast' = NoStep
    /\ UNCHANGED <<_redis, mcall, clients>>
    /\ UNCHANGED <<gvars, wvars>>

\* connect, after await redis.from_url(...): self._redis = the client and
\* the ping is sent; or from_url raised: self._redis = None, the lock is
\* released and the exception is raised again.
ManagerFromUrl(p, made) ==
    /\ mpc[p] = "from_url"
    /\ IF made
       THEN /\ _redis' = p
            /\ clients' = clients \cup {p}
            /\ mpc' = [mpc EXCEPT ![p] = "ping"]
            /\ mlast' = Step(p, "from_url", "ok", is_connected)
            /\ UNCHANGED <<_lock, mcall>>
       ELSE /\ _redis' = "none"
            /\ _lock' = "free"
            /\ mpc' = [mpc EXCEPT ![p] = "idle"]
            /\ mcall' = [mcall EXCEPT ![p] = ""]
            /\ mlast' = Step(p, "connect", "raised", is_connected)
            /\ UNCHANGED clients
    /\ UNCHANGED <<gvars, wvars>>

\* connect, after await self._redis.ping(): the lock is released and the
\* call returns; or the ping raised: self._redis = None (the client is not
\* closed), the lock is released and the exception is raised again. When
\* the caller is a data operation (through _ensure_connected), a connect
\* that returned is followed at once by the command on self._redis
\* (AttributeError when a close() has set it to None meanwhile), and a
\* connect that raised ends the operation with its exception.
ManagerPing(p, answers) ==
    /\ mpc[p] = "ping"
    /\ _lock' = "free"
    /\ IF answers
       THEN /\ mlast' = Step(p, "connect", "ok", FALSE)
            /\ mpc' = [mpc EXCEPT
                          ![p] = IF mcall[p] = "data" THEN "command"
                                 ELSE "idle"]
            /\ mcall' = [mcall EXCEPT
                            ![p] = IF mcall[p] # "data" THEN ""
                                   ELSE IF is_connected THEN "data"
                                   ELSE "data on None"]
            /\ UNCHANGED _redis
       ELSE /\ mlast' = Step(p, "connect", "raised", FALSE)
            /\ mpc' = [mpc EXCEPT ![p] = "idle"]
            /\ mcall' = [mcall EXCEPT ![p] = ""]
            /\ _redis' = "none"
    /\ UNCHANGED clients
    /\ UNCHANGED <<gvars, wvars>>

\* close, up to the await: if self._redis: await self._redis.close()
ManagerClose(p) ==
    /\ mpc[p] = "idle"
    /\ IF is_connected
       THEN /\ clients' = clients \ {_redis}
            /\ mpc' = [mpc EXCEPT ![p] = "closing"]
            /\ mlast' = NoStep
       ELSE /\ mlast' = Step(p, "close", "ok", FALSE)
            /\ UNCHANGED <<clients, mpc>>
    /\ UNCHANGED <<_redis, _lock, mcall>>
    /\ UNCHANGED <<gvars, wvars>>

\* close, after await self._redis.close(): self._redis = None
ManagerClosed(p) ==
    /\ mpc[p] = "closing"
    /\ _redis' = "none"
    /\ mpc' = [mpc EXCEPT ![p] = "idle"]
    /\ mlast' = Step(p, "close", "ok", TRUE)
    /\ UNCHANGED <<_lock, mcall, clients>>
    /\ UNCHANGED <<gvars, wvars>>

\* set/get/delete/exists/increment of the manager, from the call to the
\* first suspension: await self._ensure_connected() calls connect() when
\* not is_connected; otherwise the command is sent on self._redis.
ManagerData(p) ==
    /\ mpc[p] = "idle"
    /\ IF is_connected
       THEN /\ mpc' = [mpc EXCEPT ![p] = "command"]
            /\ mcall' = [mcall EXCEPT ![p] = "data"]
            /\ mlast' = NoStep
            /\ UNCHANGED _lock
       ELSE EnterConnect(p, "data")
    /\ UNCHANGED <<_redis, clients>>
    /\ UNCHANGED <<gvars, wvars>>

\* The data operation, after the await of its command: it returns what
\* the client returned, or raises what the client raised.
ManagerDataDone(p, answers) ==
    /\ mpc[p] = "command"
    /\ mpc' = [mpc EXCEPT ![p] = "idle"]
    /\ mcall' = [mcall EXCEPT ![p] = ""]
    /\ mlast' = Step(p, "data",
                     IF answers /\ mcall[p] = "data" THEN "ok" ELSE "raised",
                     mcall[p] = "data")
    /\ UNCHANGED <<_redis, _lock, clients>>
    /\ UNCHANGED <<gvars, wvars>>

\* ============================================== welcome.py: Welcome
MaxUses == 1            \* largest use count an invite reaches
Guilds == {10, 20}
ActiveGuilds == {10}    \* the guilds of the runs that follow one guild
Codes == {"A", "B"}
Members == {"m1", "m2"}
Joiners == {"m1"}       \* the members that join where joins do not overlap
Handlers == Members \cup {"cog_load", "on_guild_join"}
NoCode == "-"           \* used_invite is None

\* A list of invites, code -> uses: {} for a code that is not in the list,
\* {n} for an invite with n uses.
NoInvites == [c \in Codes |-> {}]
Listings == [Codes -> {{}, {0}}]
Uses(x) == CHOOSE n \in x : TRUE
Present(listing) == {c \in Codes : listing[c] # {}}

\* self.invites.get(guild.id): primed is FALSE while the key is missing.
Unprimed == [primed |-> FALSE, map |-> NoInvites]
\* A store that keeps nothing of the list (a faulty variant).
Snapshot_Empty(listing) == [primed |-> TRUE, map |-> NoInvites]

\* A failed fetch that leaves an empty snapshot behind (a faulty variant).
FetchFailed_Empty(snapshot) == [primed |-> TRUE, map |-> NoInvites]

\* except Exception as e: the handler logs the error; nothing is
\* assigned to self.invites, the guild's snapshot is what it was.
FetchFailed(snapshot) == snapshot

\* {invite.code: invite for invite in <list>}, stored for the guild
Snapshot(listing) == [primed |-> TRUE, map |-> listing]

\* used_invite.inviter.id
Inviter(c) == "inviter of " \o c

\* The join record as on_member_join would write it if it read
\* used_invite.code without asking whether used_invite is None (a faulty
\* variant: the AttributeError ends the handler before db.add_user).
JoinRecord_Unguarded(used) ==
    IF used = NoCode
    THEN [written |-> FALSE, invite_code |-> NoCode, inviter_id |-> NoCode]
    ELSE [written |-> TRUE, invite_code |-> used, inviter_id |-> Inviter(used)]

\* on_member_join after _get_used_invite: user_data handed to db.add_user,
\* "invite_code": used_invite.code if used_invite else None,
\* "inviter_id": used_invite.inviter.id if used_invite else None.
JoinRecord(used) ==
    [written |-> TRUE,
     invite_code |-> IF used # NoCode THEN used ELSE NoCode,
     inviter_id |-> IF used # NoCode THEN Inviter(used) ELSE NoCode]

NoRecord == [written |-> FALSE, invite_code |-> NoCode, inviter_id |-> NoCode]

\* The locals of a handler, with two notes on its fetch: after, the
\* member-join handlers that had fetched before it and not yet compared;
\* stale, whether a handler that fetched after it has since replaced the
\* snapshot.
NoFrame ==
    [guild |-> 0, current |-> NoInvites, after |-> {}, stale |-> FALSE]
NoHandler ==
    [op |-> "", handler |-> "", guild |-> 0, code |-> NoCode,
     res |-> NoCode, out |-> "ok", fetched |-> FALSE, pre |-> Unprimed,
     current |-> NoInvites, record |-> NoRecord, stale |-> FALSE]

\* The orders in which a list may enumerate its invites.
Orders(S) ==
    {s \in [1..Cardinality(S) -> S] : \A c \in S : \E i \in DOMAIN s : s[i] = c}

\* The test with >= for > (a faulty variant, used to show that the
\* attribution property depends on the strict comparison)
Increased_OrEqual(cached, uses) ==
    cached # {} /\ Uses(uses) >= Uses(cached)

\* if cached_invite and invite.uses > cached_invite.uses
Increased(cached, uses) ==
    cached # {} /\ Uses(uses) > Uses(cached)

\* The for loop of _get_used_invite: the first invite of current_invites,
\* in its order, that passes the test; NoCode when the loop runs out.
FirstUsed(order, cached, current) ==
    LET hits == {i \in DOMAIN order :
                    Increased(cached[order[i]], current[order[i]])}
    IN IF hits = {} THEN NoCode
       ELSE order[CHOOSE i \in hits : \A j \in hits : i <= j]

\* Welcome.__init__, with the platform's lists (one per guild) as they
\* are when the bot starts; guilds is bot.guilds at the time cog_load
\* runs.
InitWelcome(listings, guilds) ==
    /\ invites = [g \in Guilds |-> Unprimed]
    /\ guild_invites \in listings
    /\ issued = UNION {Present(guild_invites[g]) : g \in Guilds}
    /\ events = {}
    /\ todo \in guilds
    /\ wpc = [h \in Handlers |-> "idle"]
    /\ wloc = [h \in Handlers |-> NoFrame]
    /\ wlast = NoHandler

\* ------------------------------------------------------------- platform
\* Somebody creates invite c in guild g; on_invite_create is dispatched.
\* The platform sends one invite event at a time.
InviteCreated(g, c) ==
    /\ c \notin issued
    /\ events = {}
    /\ issued' = issued \cup {c}
    /\ guild_invites' = [guild_invites EXCEPT ![g][c] = {0}]
    /\ events' = events \cup {[kind |-> "create", guild |-> g, code |-> c]}
    /\ wlast' = NoHandler
    /\ UNCHANGED <<invites, todo, wpc, wloc>>
    /\ UNCHANGED <<gvars, mvars>>

\* Invite c of guild g is revoked or runs out; on_invite_delete is
\* dispatched.
InviteDeleted(g, c) ==
    /\ guild_invites[g][c] # {}
    /\ events = {}
    /\ guild_invites' = [guild_invites EXCEPT ![g][c] = {}]
    /\ events' = events \cup {[kind |-> "delete", guild |-> g, code |-> c]}
    /\ wlast' = NoHandler
    /\ UNCHANGED <<invites, issued, todo, wpc, wloc>>
    /\ UNCHANGED <<gvars, mvars>>

\* Member m joins guild g through invite c (NoCode: through no invite);
\* on_member_join is dispatched.
MemberJoins(m, g, c) ==
    /\ wpc[m] = "idle"
    /\ IF c = NoCode
       THEN UNCHANGED guild_invites
       ELSE /\ guild_invites[g][c] # {}
            /\ Uses(guild_invites[g][c]) < MaxUses
            /\ guild_invites' =
                  [guild_invites EXCEPT ![g][c] = {Uses(@) + 1}]
    /\ wpc' = [wpc EXCEPT ![m] = "joined"]
    /\ wloc' = [wloc EXCEPT ![m] = [NoFrame EXCEPT !.guild = g]]
    /\ wlast' = NoHandler
    /\ UNCHANGED <<invites, issued, events, todo>>
    /\ UNCHANGED <<gvars, mvars>>

\* ------------------------------------------------------------- handlers
\* A handler that fetches the list and stores it as the snapshot
\* (cog_load for one guild of its loop, on_guild_join), up to the await.
\* A failed fetch is logged and the handler goes on without a store.
RefreshFetch(h, g, fetched) ==
    /\ wpc[h] = "idle"
    /\ IF fetched
       THEN /\ wpc' = [wpc EXCEPT ![h] = "fetched"]
            /\ wloc' = [wloc EXCEPT
                          ![h] = [NoFrame EXCEPT
                                    !.guild = g,
                                    !.current = guild_invites[g]]]
            /\ wlast' = NoHandler
            /\ UNCHANGED invites
       ELSE /\ invites' = [invites EXCEPT ![g] = FetchFailed(@)]
            /\ wlast' = [NoHandler EXCEPT
                           !.op = h, !.handler = h, !.guild = g,
                           !.out = "caught", !.pre = invites[g]]
            /\ UNCHANGED <<wpc, wloc>>
    /\ UNCHANGED <<guild_invites, issued, events>>
    /\ UNCHANGED <<gvars, mvars>>

\* self.invites[guild.id] = {invite.code: invite for invite in ...}
RefreshStore(h) ==
    /\ wpc[h] = "fetched"
    /\ invites' = [invites EXCEPT
                     ![wloc[h].guild] = Snapshot(wloc[h].current)]
    /\ wpc' = [wpc EXCEPT ![h] = "idle"]
    /\ wloc' = [wloc EXCEPT ![h] = NoFrame]
    /\ wlast' = [NoHandler EXCEPT
                   !.op = h, !.handler = h, !.guild = wloc[h].guild,
                   !.fetched = TRUE, !.pre = invites[wloc[h].guild],
                   !.current = wloc[h].current]
    /\ UNCHANGED <<guild_invites, issued, events>>
    /\ UNCHANGED <<gvars, mvars>>

\* cog_load: for guild in self.bot.guilds, the next guild of the loop
cog_load_fetch(fetched) ==
    /\ todo # {}
    /\ wpc["on_guild_join"] = "idle"
    /\ LET g == CHOOSE x \in todo : \A y \in todo : x <= y
       IN /\ RefreshFetch("cog_load", g, fetched)
          /\ todo' = IF fetched THEN todo ELSE todo \ {g}

cog_load_store ==
    /\ RefreshStore("cog_load")
    /\ todo' = todo \ {wloc["cog_load"].guild}

\* on_guild_join(guild), for a guild that the loop of cog_load is not
\* going to fetch
on_guild_join_fetch(g, fetched) ==
    /\ g \notin todo
    /\ wpc["cog_load"] = "idle"
    /\ RefreshFetch("on_guild_join", g, fetched)
    /\ UNCHANGED todo

on_guild_join_store ==
    /\ RefreshStore("on_guild_join")
    /\ UNCHANGED todo

\* on_invite_create(invite): self.invites[invite.guild.id][invite.code] =
\* invite, a KeyError when the guild has no snapshot. The invite of the
\* event has no uses yet.
on_invite_create(g, c) ==
    /\ [kind |-> "create", guild |-> g, code |-> c] \in events
    /\ events' = events \ {[kind |-> "create", guild |-> g, code |-> c]}
    /\ invites' = IF invites[g].primed
                  THEN [invites EXCEPT ![g].map[c] = {0}]
                  ELSE invites
    /\ wlast' = [NoHandler EXCEPT
                   !.op = "on_invite_create", !.guild = g, !.code = c,
                   !.out = IF invites[g].primed THEN "ok" ELSE "raised",
                   !.pre = invites[g]]
    /\ UNCHANGED <<guild_invites, issued, todo, wpc, wloc>>
    /\ UNCHANGED <<gvars, mvars>>

\* A removal that makes a snapshot for a guild that has none (a faulty
\* variant).
Popped_Creating(snapshot, c) ==
    [primed |-> TRUE, map |-> [snapshot.map EXCEPT ![c] = {}]]

\* if invite.guild.id in self.invites:
\*     self.invites[invite.guild.id].pop(invite.code, None)
Popped(snapshot, c) ==
    IF snapshot.primed
    THEN [snapshot EXCEPT !.map[c] = {}]
    ELSE snapshot

\* on_invite_delete(invite): if the guild has a snapshot,
\* self.invites[invite.guild.id].pop(invite.code, None)
on_invite_delete(g, c) ==
    /\ [kind |-> "delete", guild |-> g, code |-> c] \in events
    /\ events' = events \ {[kind |-> "delete", guild |-> g, code |-> c]}
    /\ invites' = [invites EXCEPT ![g] = Popped(@, c)]
    /\ wlast' = [NoHandler EXCEPT
                   !.op = "on_invite_delete", !.guild = g, !.code = c,
                   !.pre = invites[g]]
    /\ UNCHANGED <<guild_invites, issued, todo, wpc, wloc>>
    /\ UNCHANGED <<gvars, mvars>>

\* on_member_join -> _get_used_invite, up to await guild.invites(); a
\* failed fetch is caught: used_invite is None, and on_member_join goes on
\* to write the join record.
get_used_invite_fetch(m, fetched) ==
    /\ wpc[m] = "joined"
    /\ IF fetched
       THEN /\ wpc' = [wpc EXCEPT ![m] = "fetched"]
            /\ wloc' = [wloc EXCEPT
                          ![m].current = guild_invites[wloc[m].guild],
                          ![m].after =
                              {q \in Members \ {m} :
                                  /\ wpc[q] = "fetched"
                                  /\ wloc[q].guild = wloc[m].guild}]
            /\ wlast' = NoHandler
            /\ UNCHANGED invites
       ELSE /\ invites' = [invites EXCEPT
                             ![wloc[m].guild] = FetchFailed(@)]
            /\ wpc' = [wpc EXCEPT ![m] = "idle"]
            /\ wloc' = [wloc EXCEPT ![m] = NoFrame]
            /\ wlast' = [NoHandler EXCEPT
                           !.op = "on_member_join", !.handler = m,
                           !.guild = wloc[m].guild, !.out = "caught",
                           !.pre = invites[wloc[m].guild],
                           !.record = JoinRecord(NoCode)]
    /\ UNCHANGED <<guild_invites, issued, events, todo>>
    /\ UNCHANGED <<gvars, mvars>>

\* _get_used_invite after the fetch: the loop over current_invites. With
\* no snapshot for the guild the first self.invites[guild.id] raises
\* KeyError, which is caught: None. A hit replaces the snapshot by
\* current_invites; without a hit the snapshot stays. on_member_join then
\* writes the join record; nothing it does after that touches the cache.
get_used_invite_compare(m, order) ==
    /\ wpc[m] = "fetched"
    /\ LET g == wloc[m].guild
           current == wloc[m].current
           missing == ~invites[g].primed /\ order # <<>>
           hit == IF missing THEN NoCode
                  ELSE FirstUsed(order, invites[g].map, current)
       IN /\ order \in Orders(Present(current))
          /\ invites' = IF hit = NoCode THEN invites
                        ELSE [invites EXCEPT ![g] = Snapshot(current)]
          /\ wlast' = [op |-> "on_member_join", handler |-> m, guild |-> g,
                       code |-> NoCode, res |-> hit,
                       out |-> IF missing THEN "caught" ELSE "ok",
                       fetched |-> TRUE, pre |-> invites[g],
                       current |-> current, record |-> JoinRecord(hit),
                       stale |-> wloc[m].stale]
          /\ wloc' = [h \in Handlers |->
                        IF h = m THEN NoFrame
                        ELSE [wloc[h] EXCEPT
                                !.after = @ \ {m},
                                !.stale = @ \/ (hit # NoCode
                                                /\ h \in wloc[m].after)]]
    /\ wpc' = [wpc EXCEPT ![m] = "idle"]
    /\ UNCHANGED <<guild_invites, issued, events, todo>>
    /\ UNCHANGED <<gvars, mvars>>

\* ---------------------------------------------------------- initial states
\* Each specification runs one component; the others stay as constructed.
Init ==
    /\ InitGateway(FALSE, BOOLEAN)
    /\ InitManager
    /\ InitWelcome({[g \in Guilds |-> NoInvites]}, {{}})

InitRef ==
    /\ InitGateway(TRUE, BOOLEAN)
    /\ InitManager
    /\ InitWelcome({[g \in Guilds |-> NoInvites]}, {{}})

InitWelcomeRun ==
    /\ InitGateway(FALSE, {TRUE})
    /\ InitManager
    /\ InitWelcome({[g \in Guilds |-> IF g \in ActiveGuilds THEN l
                                      ELSE NoInvites] : l \in Listings},
                   SUBSET ActiveGuilds)

\* The bot is in every guild, each with one invite of its own.
InitWelcomeGuilds ==
    /\ InitGateway(FALSE, {TRUE})
    /\ InitManager
    /\ InitWelcome({[g \in Guilds |->
                        [c \in Codes |->
                            IF (g \in ActiveGuilds) = (c = "A")
                            THEN {0} ELSE {}]]},
                   SUBSET Guilds)

\* ------------------------------------------------------------------- Next
\* Whether the server answers a call is open only when a call is made.
Answers == IF available THEN BOOLEAN ELSE {TRUE}

\* The data operations, with connect.
Next ==
    \/ Tick
    \/ \E p \in Connectors : ConnectStart(p)
    \/ \E p \in Connectors, ans \in BOOLEAN : ConnectPing(p, ans)
    \/ \E k \in DataKeys, v \in Values, ex \in ExpireArgs, ans \in Answers :
          Set(k, v, ex, ans)
    \/ \E k \in DataKeys, ans \in Answers : Get(k, ans)
    \/ \E k \in DataKeys, ans \in Answers : Delete(k, ans)
    \/ \E k \in DataKeys, ans \in Answers : Exists(k, ans)
    \/ \E k \in DataKeys, ans \in Answers : Increment(k, ans)

Spec == Init /\ [][Next]_vars

\* connect and close, with set to fill the maps.
NextClose ==
    \/ \E p \in Tasks : ConnectStart(p)
    \/ \E p \in Tasks, ans \in BOOLEAN : ConnectPing(p, ans)
    \/ \E p \in Tasks : CloseStart(p)
    \/ \E p \in Tasks : CloseFinish(p)
    \/ \E k \in DataKeys, v \in Values, ex \in ExpireArgs, ans \in Answers :
          Set(k, v, ex, ans)

SpecClose == Init /\ [][NextClose]_vars

\* check_cooldown, with connect.
NextCooldown ==
    \/ Tick
    \/ \E p \in Connectors : ConnectStart(p)
    \/ \E p \in Connectors, ans \in BOOLEAN : ConnectPing(p, ans)
    \/ \E p \in Tasks, u \in Users, c \in Commands, w \in Windows,
          ans \in Answers : CheckCooldownStart(p, u, c, w, ans)
    \/ \E p \in Tasks, ans \in Answers : CheckCooldownAfterExists(p, ans)
    \/ \E p \in Tasks : CheckCooldownAfterSet(p)

SpecCooldown == Init /\ [][NextCooldown]_vars

\* A backend whose data calls all fail (the health probe may still pass),
\* followed side by side with a run that only ever had the fallback map.
NextRef ==
    \/ Tick
    \/ \E p \in Connectors : ConnectStart(p)
    \/ \E p \in Connectors, ans \in BOOLEAN : ConnectPing(p, ans)
    \/ \E k \in DataKeys, v \in Values, ex \in ExpireArgs, ans \in Answers :
          Set(k, v, ex, ans) /\ refTrack'
    \/ \E k \in DataKeys, ans \in Answers : Get(k, ans) /\ refTrack'
    \/ \E k \in DataKeys, ans \in Answers : Delete(k, ans) /\ refTrack'
    \/ \E k \in DataKeys, ans \in Answers : Exists(k, ans) /\ refTrack'
    \/ \E k \in DataKeys, ans \in Answers : Increment(k, ans) /\ refTrack'

SpecRef == InitRef /\ [][NextRef]_vars

\* set, get and exists, with connect: set is the only writer and nothing
\* deletes.
NextReadBack ==
    \/ Tick
    \/ \E p \in Connectors : ConnectStart(p)
    \/ \E p \in Connectors, ans \in BOOLEAN : ConnectPing(p, ans)
    \/ \E k \in DataKeys, v \in Values, ex \in ExpireArgs, ans \in Answers :
          Set(k, v, ex, ans)
    \/ \E k \in DataKeys, ans \in Answers : Get(k, ans)
    \/ \E k \in DataKeys, ans \in Answers : Exists(k, ans)

SpecReadBack == Init /\ [][NextReadBack]_vars

\* The methods that call self.redis without reading self._available, with
\* connect and get.
NextDirect ==
    \/ Tick
    \/ \E p \in Connectors : ConnectStart(p)
    \/ \E p \in Connectors, ans \in BOOLEAN : ConnectPing(p, ans)
    \/ \E k \in RateKeys, ans \in Answers : Get(RateKey(k), ans)
    \/ \E p \in Tasks, k \in RateKeys, n \in Limits, w \in Windows,
          ans \in BOOLEAN : SetRateLimitStart(p, k, n, w, ans)
    \/ \E p \in Tasks, ans \in BOOLEAN : SetRateLimitAfterIncr(p, ans)
    \/ \E p \in Tasks : SetRateLimitAfterExpire(p)
    \/ \E p \in Tasks, pat \in Patterns, ans \in BOOLEAN :
          CacheDeletePatternStart(p, pat, ans)
    \/ \E p \in Tasks, ans \in BOOLEAN : CacheDeletePatternDelete(p, ans)

SpecDirect == Init /\ [][NextDirect]_vars

\* redis_manager.py: connect, close and the data operations by any number
\* of callers.
NextManager ==
    \/ \E p \in Callers : ManagerConnect(p)
    \/ \E p \in Callers : ManagerLockAcquired(p)
    \/ \E p \in Callers, made \in BOOLEAN : ManagerFromUrl(p, made)
    \/ \E p \in Callers, ans \in BOOLEAN : ManagerPing(p, ans)
    \/ \E p \in Callers : ManagerClose(p)
    \/ \E p \in Callers : ManagerClosed(p)
    \/ \E p \in Callers : ManagerData(p)
    \/ \E p \in Callers, ans \in BOOLEAN : ManagerDataDone(p, ans)

SpecManager == Init /\ [][NextManager]_vars

\* welcome.py: the handlers of the cog and the platform they listen to.
NextWelcome ==
    \/ \E g \in ActiveGuilds, c \in Codes : InviteCreated(g, c)
    \/ \E g \in ActiveGuilds, c \in Codes : InviteDeleted(g, c)
    \/ \E m \in Joiners, g \in ActiveGuilds, c \in Codes \cup {NoCode} :
          MemberJoins(m, g, c)
    \/ \E fetched \in BOOLEAN : cog_load_fetch(fetched)
    \/ cog_load_store
    \/ \E g \in ActiveGuilds, fetched \in BOOLEAN : on_guild_join_fetch(g, fetched)
    \/ on_guild_join_store
    \/ \E g \in ActiveGuilds, c \in Codes : on_invite_create(g, c)
    \/ \E g \in ActiveGuilds, c \in Codes : on_invite_delete(g, c)
    \/ \E m \in Joiners, fetched \in BOOLEAN : get_used_invite_fetch(m, fetched)
    \/ \E m \in Joiners : \E order \in Orders(Present(wloc[m].current)) :
          get_used_invite_compare(m, order)

SpecWelcome == InitWelcomeRun /\ [][NextWelcome]_vars

\* welcome.py: the refreshes and the member joins of all guilds.
NextWelcomeGuilds ==
    \/ \E m \in Joiners, g \in Guilds, c \in Codes \cup {NoCode} :
          MemberJoins(m, g, c)
    \/ \E fetched \in BOOLEAN : cog_load_fetch(fetched)
    \/ cog_load_store
    \/ \E g \in Guilds, fetched \in BOOLEAN : on_guild_join_fetch(g, fetched)
    \/ on_guild_join_store
    \/ \E m \in Joiners, fetched \in BOOLEAN : get_used_invite_fetch(m, fetched)
    \/ \E m \in Joiners : \E order \in Orders(Present(wloc[m].current)) :
          get_used_invite_compare(m, order)

SpecWelcomeGuilds == InitWelcomeGuilds /\ [][NextWelcomeGuilds]_vars

\* ============================================================= properties
DataOps == {"set", "get", "delete", "exists", "increment"}
Expired(e, t) == e.has /\ After(t, e.expire)
StoreVia(via) == IF via = "remote" THEN server ELSE memory_store

\* C1: a data operation issued while the availability flag is true never
\* ends with the backend's failure: when the remote call raises, the
\* operation completes on the fallback map.
C1_RemoteFailureNotPropagated ==
    (last.op \in DataOps /\ last.via = "remote") => last.out = "ok"

\* C2: with a backend whose data calls all fail, every call returns what
\* the same call returns in a run that only has the fallback map.
C2_FallbackTransparency ==
    refTrack => last.res = refRes

\* C3: a get or exists that finds an entry whose expiry is in the past
\* returns None / False, on either store, and a read that returns a value
\* (or True) read an entry that is there and has not expired.
C3_LazyExpiration ==
    /\ (last.op = "get" /\ last.out = "ok" /\ Expired(last.pre, now))
          => last.res = NoneRes
    /\ (last.op = "exists" /\ last.out = "ok" /\ Expired(last.pre, now))
          => last.res = FalseRes
    /\ (last.op = "get" /\ last.out = "ok" /\ last.res # NoneRes)
          => /\ last.pre.has
             /\ last.res = last.pre.value
             /\ ~Expired(last.pre, now)
    /\ (last.op = "exists" /\ last.out = "ok" /\ last.res = TrueRes)
          => last.pre.has /\ ~Expired(last.pre, now)

\* C3 witness: a get on the fallback map has just found an entry that was
\* set with a TTL and whose expiry has passed.
C3_Witness ==
    /\ last.op = "get"
    /\ last.via = "fallback"
    /\ Expired(last.pre, now)
    /\ last.res = NoneRes

\* C4: increment on a key that is absent, or whose TTL has expired, returns
\* 1, and the new entry does not carry the old expiry.
C4_IncrementFromAbsent ==
    (/\ last.op = "increment"
     /\ last.out = "ok"
     /\ (~last.pre.has \/ Expired(last.pre, now)))
        => /\ last.res = "1"
           /\ StoreVia(last.via)[last.key] = Entry("1", {})

\* C5: of two overlapping check_cooldown calls for the same pair, at most
\* one returns True.
C5_CooldownExclusive ==
    \A p, q \in Tasks :
        (p # q /\ q \in ccover[p])
            => ~(ccres[p] = TrueRes /\ ccres[q] = TrueRes)

\* The mark of the call that just returned True: "1" with an expiry one
\* window after the set.
MarkSet(K, w) ==
    \E m \in {memory_store, server} :
        /\ m[K].has
        /\ m[K].value = "1"
        /\ \E x \in m[K].expire : x - w >= StartTime /\ x - w <= now

\* C6: a check_cooldown that no other check overlaps returns True only if
\* no unexpired mark existed, and then the mark is set with TTL = window;
\* while an unexpired mark exists it returns False and leaves the mark as
\* it found it.
C6_CooldownContract ==
    (last.op = "check_cooldown" /\ ccover[last.task] = {})
        => /\ last.res = TrueRes
                => ~last.mark /\ MarkSet(last.key, CHOOSE w \in last.arg : TRUE)
           /\ last.mark => last.res = FalseRes
           /\ last.res = FalseRes => StoreVia(last.via)[last.key] = last.pre

\* C9: when close() returns and no other call is in flight, the fallback
\* map is empty and the client the
\* gateway holds, if connect() ever made one, has been closed.
C9_CloseReleases ==
    (last.op = "close" /\ \A p \in Tasks : pc[p] = "idle")
        => /\ memory_store = EmptyStore
           /\ redis # "none" => redis \notin opened

\* C7: connect() allows one attempt in flight. A connect() that returns
\* while another caller's attempt is still in progress has not waited for
\* it; a client made while self._redis already holds one is a second
\* attempt after the first succeeded.
C7_SingleAttempt ==
    /\ mlast.op = "connect"
          => \A q \in Callers \ {mlast.task} :
                mpc[q] \notin {"from_url", "ping"}
    /\ mlast.op = "from_url" => ~mlast.held

\* C8: connect() never throws: it returns normally when creating the client
\* or the health probe fails.
C8_ConnectNeverThrows ==
    mlast.op = "connect" => mlast.out = "ok"

\* The invites that are in both the stored snapshot and the fetched list
\* with more uses in the list than in the snapshot.
Candidates(pre, current) ==
    {c \in Codes : /\ pre.primed
                   /\ pre.map[c] # {}
                   /\ current[c] # {}
                   /\ Uses(current[c]) > Uses(pre.map[c])}

\* C10: the invite a member-join attribution returns is in the stored
\* snapshot and in the fetched list with more uses in the list; when
\* exactly one invite is like that, it is the one returned; an invite that
\* is not in the stored snapshot is never returned.
C10_CandidateRule ==
    (wlast.op = "on_member_join" /\ wlast.fetched)
        => LET cands == Candidates(wlast.pre, wlast.current)
           IN /\ wlast.res # NoCode => wlast.res \in cands
              /\ Cardinality(cands) = 1 => wlast.res \in cands
              /\ \A c \in Codes : wlast.pre.map[c] = {} => wlast.res # c

\* C10 witness: snapshot and list hold A and B, A with the same uses, B with
\* more uses in the list, and the attribution has returned B.
C10_Witness ==
    /\ wlast.op = "on_member_join"
    /\ wlast.fetched
    /\ wlast.pre.primed
    /\ Present(wlast.pre.map) = {"A", "B"}
    /\ wlast.current["A"] = wlast.pre.map["A"]
    /\ wlast.current["B"] # {}
    /\ Uses(wlast.current["B"]) > Uses(wlast.pre.map["B"])
    /\ wlast.res = "B"

\* The place of a code in lexicographic order.
CodeRank(c) == IF c = "A" THEN 1 ELSE 2

\* The candidate with the largest increase, the smallest code among equals.
BestCandidate(pre, current) ==
    LET cands == Candidates(pre, current)
        delta(c) == Uses(current[c]) - Uses(pre.map[c])
    IN CHOOSE c \in cands :
          \A d \in cands \ {c} :
              \/ delta(c) > delta(d)
              \/ delta(c) = delta(d) /\ CodeRank(c) < CodeRank(d)

\* C11: when several invites of the fetched list have more uses than in the
\* snapshot, attribution returns the one with the largest increase and,
\* among equal increases, the smallest code, whatever the order of the list.
C11_TieBreak ==
    (/\ wlast.op = "on_member_join"
     /\ wlast.fetched
     /\ Cardinality(Candidates(wlast.pre, wlast.current)) > 1)
        => wlast.res = BestCandidate(wlast.pre, wlast.current)

Refreshes == {"cog_load", "on_guild_join"}

\* C13: after a successful refresh of a guild (cog_load or on_guild_join)
\* the stored snapshot has exactly the codes and use counts of the list
\* just fetched; no code of the earlier snapshot that the list lacks stays.
C13_RefreshReplaces ==
    (wlast.op \in Refreshes /\ wlast.fetched)
        => /\ invites[wlast.guild].primed
           /\ \A c \in Codes :
                 invites[wlast.guild].map[c] = wlast.current[c]

\* C13 witness: a refresh has stored a list that lacks a code of the
\* earlier snapshot and has another code.
C13_Witness ==
    /\ wlast.op \in Refreshes
    /\ wlast.fetched
    /\ wlast.pre.primed
    /\ \E c \in Codes : wlast.pre.map[c] # {} /\ wlast.current[c] = {}
    /\ Present(wlast.current) # {}

\* C14: when the call that lists a guild's invites fails during a refresh,
\* the failure reaches the caller of the refresh; it is not swallowed.
C14_RefreshFailurePropagates ==
    (wlast.op \in Refreshes /\ ~wlast.fetched) => wlast.out = "raised"

\* C15: a set with a TTL of zero or less is rejected: the call fails and
\* stores nothing.
C15_MisuseRejected ==
    (last.op = "set" /\ \E e \in last.arg : e <= 0) => last.out = "raised"

\* C16: after a member-join attribution whose fetch succeeded, the stored
\* snapshot of the guild equals the fetched list, whether or not a
\* candidate was found.
C16_ReplacedRegardless ==
    (wlast.op = "on_member_join" /\ wlast.fetched)
        => invites[wlast.guild] = Snapshot(wlast.current)

\* welcome.py: member joins that overlap, after cog_load.
NextWelcomeRace ==
    \/ \E m \in Members, g \in ActiveGuilds, c \in Codes \cup {NoCode} :
          MemberJoins(m, g, c)
    \/ \E fetched \in BOOLEAN : cog_load_fetch(fetched)
    \/ cog_load_store
    \/ \E m \in Members, fetched \in BOOLEAN : get_used_invite_fetch(m, fetched)
    \/ \E m \in Members : \E order \in Orders(Present(wloc[m].current)) :
          get_used_invite_compare(m, order)

SpecWelcomeRace == InitWelcomeRun /\ [][NextWelcomeRace]_vars

\* C17: member-join handlers of one guild do not interleave their
\* fetch / compare / replace sequences: no two are between fetch and
\* compare at once, and so no handler compares (or replaces) against a
\* snapshot written from a list fetched later than its own.
C17_Serialized ==
    /\ \A p, q \in Members :
          (p # q /\ wloc[p].guild = wloc[q].guild)
              => ~(wpc[p] = "fetched" /\ wpc[q] = "fetched")
    /\ wlast.op = "on_member_join" => ~wlast.stale

\* C18: a member join for a guild that has no snapshot yet, with the list
\* fetched, leaves the guild primed with the fetched list, and the handler
\* does not fail on the missing snapshot.
C18_PrimedOnFirstNeed ==
    (wlast.op = "on_member_join" /\ wlast.fetched /\ ~wlast.pre.primed)
        => /\ invites[wlast.guild] = Snapshot(wlast.current)
           /\ wlast.out = "ok"

\* C19: a step in which a refresh or a member-join attribution returns
\* after its call for the guild's invites failed leaves every snapshot,
\* the one of that guild and those of all other guilds, exactly as it was.
C19_UntouchedOnFailure ==
    [][(/\ wlast'.op \in Refreshes \cup {"on_member_join"}
        /\ ~wlast'.fetched)
           => /\ invites'[wlast'.guild] = invites[wlast'.guild]
              /\ \A g \in Guilds \ {wlast'.guild} :
                    invites'[g] = invites[g]]_vars

\* A fetch has failed for a guild whose snapshot holds an invite, while
\* another guild has a snapshot with an invite as well.
C19_Witness ==
    /\ wlast.op \in Refreshes \cup {"on_member_join"}
    /\ ~wlast.fetched
    /\ wlast.pre.primed
    /\ Present(wlast.pre.map) # {}
    /\ invites[wlast.guild] = wlast.pre
    /\ \E g \in Guilds \ {wlast.guild} :
          invites[g].primed /\ Present(invites[g].map) # {}

\* C20: after on_invite_create for code c in guild g the snapshot of g
\* holds c with use count 0 and its other entries are what they were; the
\* handler fetches no list and does not fail, whatever the guild's state,
\* a guild without a snapshot included.
C20_CreateMaintained ==
    wlast.op = "on_invite_create"
        => /\ wlast.out = "ok"
           /\ ~wlast.fetched
           /\ invites[wlast.guild].primed
           /\ invites[wlast.guild].map[wlast.code] = {0}
           /\ \A c \in Codes \ {wlast.code} :
                 invites[wlast.guild].map[c] = wlast.pre.map[c]

\* C21: after on_invite_delete for code c in guild g the snapshot of g
\* does not hold c and its other entries are what they were; for a code
\* that is not in the snapshot, or a guild without a snapshot, the handler
\* changes nothing, does not fail and creates no snapshot.
C21_DeleteMaintained ==
    wlast.op = "on_invite_delete"
        => /\ wlast.out = "ok"
           /\ ~wlast.fetched
           /\ invites[wlast.guild].primed = wlast.pre.primed
           /\ invites[wlast.guild].map[wlast.code] = {}
           /\ \A c \in Codes \ {wlast.code} :
                 invites[wlast.guild].map[c] = wlast.pre.map[c]
           /\ (~wlast.pre.primed \/ wlast.pre.map[wlast.code] = {})
                 => invites[wlast.guild] = wlast.pre

\* A delete has removed a code from a snapshot that holds another code.
C21_Witness ==
    /\ wlast.op = "on_invite_delete"
    /\ wlast.pre.primed
    /\ wlast.pre.map[wlast.code] # {}
    /\ Present(invites[wlast.guild].map) # {}
    /\ wlast.code \notin Present(invites[wlast.guild].map)

\* A delete has been handled for a guild without a snapshot
C21_WitnessUnprimed ==
    wlast.op = "on_invite_delete" /\ ~wlast.pre.primed

\* A delete has been handled for a code that the snapshot does not hold
C21_WitnessAbsent ==
    /\ wlast.op = "on_invite_delete"
    /\ wlast.pre.primed
    /\ wlast.pre.map[wlast.code] = {}

\* C22: whenever no probe is in flight, the availability flag is true only
\* if the gateway holds a client and the latest ping of that client
\* succeeded, overlapping connect() calls included.
C22_AvailableMeansProbed ==
    (available /\ \A p \in Tasks : pc[p] # "ping")
        => redis # "none" /\ probed[redis] = "ok"

\* C23: when the remote call of a data operation fails, the availability
\* flag is false by the time the operation returns.
C23_DowngradeOnFailure ==
    (last.op \in DataOps /\ last.via = "remote" /\ last.out = "raised")
        => ~available

\* The methods of the gateway that read or write data.
Routed == DataOps \cup {"set_rate_limit", "cache_delete_pattern"}

\* C24: every data operation, set_rate_limit and cache_delete_pattern
\* included, goes to the backend when the availability flag is true and to
\* the fallback map when it is false, and to nothing else.
C24_RoutedByFlag ==
    last.op \in Routed
        => /\ last.flag => last.via = "remote"
           /\ ~last.flag => last.via = "fallback"

\* C25: a connection attempt (the creation of a client and its probe) is
\* made only by a caller that called connect() itself; a data operation
\* never starts or waits for one.
C25_LazyReconnect ==
    \A p \in Callers :
        mpc[p] \in {"lock", "from_url", "ping"} => mcall[p] = "connect"

\* C26: after a refresh has stored a guild's snapshot (of a list that has
\* invites) in memory, the cache gateway holds a copy of it: some key of
\* the gateway, in the fallback map or on the server, has an entry.
C26_SnapshotMirrored ==
    (wlast.op \in Refreshes /\ wlast.fetched /\ Present(wlast.current) # {})
        => /\ invites[wlast.guild] = Snapshot(wlast.current)
           /\ \E K \in StoreKeys : memory_store[K].has \/ server[K].has

\* C27: the use count stored for a code never goes down from one step to
\* the next while the code stays in the guild's snapshot (the platform's
\* own counts never go down).
C27_UsesMonotone ==
    [][\A g \in Guilds, c \in Codes :
          (/\ invites[g].primed /\ invites[g].map[c] # {}
           /\ invites'[g].primed /\ invites'[g].map[c] # {})
              => Uses(invites'[g].map[c]) >= Uses(invites[g].map[c])]_vars

\* What get(key) returns in the current state, for the prefixed key K.
Visible(K) ==
    IF available
    THEN RmGet(server, K, now).res
    ELSE FbGet(memory_store, K, now).res

\* C28: a connect() that changes the availability flag does not take away
\* what was written: every key that get returned a value for before the
\* change (written, not deleted, not expired) has the same value after it;
\* a cooldown mark is such a key.
C28_ReadYourWrites ==
    [][available' # available
          => \A K \in StoreKeys :
                Visible(K) # NoneRes => Visible(K)' = Visible(K)]_vars

\* C29: when close() has returned, the availability flag is false or the
\* gateway holds no client, and no data operation is sent through a client
\* that has been closed.
C29_ClosedMeansUnavailable ==
    /\ last.op = "close" => (~available \/ redis = "none")
    /\ (last.op \in DataOps /\ last.via = "remote") => redis \in opened

\* C30: a rate-limit counter that set_rate_limit has incremented carries an
\* expiry once the call has ended: while no call is between its incr and
\* its expire, every counter on the server has an expiry.
C30_CounterExpires ==
    \A k \in RateKeys :
        (/\ server[_key(RateKey(k))].has
         /\ \A p \in Tasks : pc[p] # "rl_incr")
            => server[_key(RateKey(k))].expire # {}
====
